---- MODULE Spec2Model ----
(***************************************************************************)
(* Verification model of the book search engine.                           *)
(*                                                                         *)
(*   Spec        the offline stage scripts/build_graphs.py: load_books,    *)
(*               the similarity worker pool, the centrality step with its  *)
(*               closeness worker pool, save_data.                         *)
(*   SpecJaccard compute_jaccard as a pure function.                       *)
(*   SpecRank    BaseSearchView.calculate_ranking as a pure function.      *)
(*   SpecServe   the query-time process: GutenbergApiConfig.ready and the  *)
(*               request handlers reading the in-memory snapshot.          *)
(*                                                                         *)
(* Numbers: a similarity is the exact fraction <<num, den>> in lowest      *)
(* terms (the float intersection / union); a score of calculate_ranking is *)
(* an integer count of 1e-4 units (the value of round(x, 4)).              *)
(***************************************************************************)
EXTENDS Integers, Sequences, FiniteSets, TLC

\* ------------------------------------------------------------------ bounds
MaxBooks == 3
MaxCores == 2
BigBooks == 12
MaxTerms == 3
MaxHits == 3
MaxAllocCores == 8
MaxReads == 2
MaxDen == 6

\* ------------------------------------------------------- program constants
\* CONSTRAINTS["jaccard_threshold"] = 0.15 = ThresholdNum / ThresholdDen
ThresholdNum == 3
ThresholdDen == 20
\* pool.map(worker_compare_row, range(n), chunksize=10)
chunksize == 10

\* ----------------------------------------------------------------- helpers
Min(a, b) == IF a < b THEN a ELSE b

RECURSIVE Gcd(_, _)
Gcd(a, b) == IF b = 0 THEN a ELSE Gcd(b, a % b)

\* The float num / den, as the fraction in lowest terms.
Rat(num, den) == IF num = 0 THEN <<0, 1>> ELSE <<num \div Gcd(num, den), den \div Gcd(num, den)>>

RatLess(p, q) == p[1] * q[2] < q[1] * p[2]

Range(s) == {s[k] : k \in 1..Len(s)}

RECURSIVE Concat(_)
Concat(ss) == IF ss = <<>> THEN <<>> ELSE Head(ss) \o Concat(Tail(ss))

\* All sequences without repetition of at most n elements of S.
RECURSIVE Arrangements(_, _)
Arrangements(S, n) ==
    IF n = 0 THEN {<<>>}
    ELSE {<<>>} \cup UNION {{<<x>> \o t : t \in Arrangements(S \ {x}, n - 1)} : x \in S}

\* ------------------------------------------------------------ config.py
\* ResourceAllocator, as a function of IN_DOCKER and SYSTEM_CORES.
\* Mutant: the local similarity pool without its limit of 6.
ram_intensive_uncapped(docker, cores) == IF docker THEN 10 ELSE cores

ram_intensive(docker, cores) == IF docker THEN 10 ELSE Min(6, cores)

cpu_intensive(docker, cores) == IF docker THEN 20 ELSE cores

io_intensive(docker, cores) == IF docker THEN 8 ELSE 4

download(docker, cores) == 13

\* The attributes of the module that `import config` binds. build_graphs.py
\* reads flat module attributes; scripts/config.py ("dict") defines the
\* dictionaries PATHS, CONSTRAINTS, NETWORK, ELASTIC and the WORKERS object.
\* "flat" is a config module that defines the attributes build_graphs.py
\* reads, with the values scripts/config.py holds.
ConfigNames(api) ==
    IF api = "dict"
    THEN {"IN_DOCKER", "SYSTEM_CORES", "PATHS", "GUTENDEX_API", "ELASTIC",
          "CONSTRAINTS", "NETWORK", "ResourceAllocator", "WORKERS"}
    ELSE {"IN_DOCKER", "SYSTEM_CORES", "BOOKS_DIR", "JACCARD_THRESHOLD",
          "WORKERS_JACCARD", "WORKERS_CLOSENESS", "RANK_FILE", "GRAPH_FILE",
          "DATA_DIR"}

\* --------------------------------------------------- build_graphs.py: text
\* get_stopwords: the union of the English and French lists (a sample).
StopWords == {"the", "of", "and", "les", "des", "une"}

\* text.lower() followed by re.sub(r'[^\w\s]', '', ...), on one raw token.
Normalize(tok) ==
    CASE tok = "The"    -> "the"
      [] tok = "Whale," -> "whale"
      [] tok = "WHALE"  -> "whale"
      [] tok = "Sea."   -> "sea"
      [] tok = "Ship"   -> "ship"
      [] tok = "--"     -> ""
      [] tok = "Les"    -> "les"
      [] OTHER          -> tok

\* clean_text: text is the sequence of whitespace-separated raw tokens.
clean_text(text) ==
    IF text = <<>> THEN {}
    ELSE {w \in {Normalize(text[k]) : k \in 1..Len(text)} :
            w # "" /\ w \notin StopWords /\ Len(w) > 2}

\* Mutant: the intersection divided by the size of the first set.
compute_overlap(set_a, set_b) ==
    IF Cardinality(set_a) > 0
    THEN Rat(Cardinality(set_a \cap set_b), Cardinality(set_a))
    ELSE <<0, 1>>

\* compute_jaccard
compute_jaccard(set_a, set_b) ==
    LET intersection == Cardinality(set_a \cap set_b)
        union == Cardinality(set_a \cup set_b)
    IN  IF union > 0 THEN Rat(intersection, union) ELSE <<0, 1>>

\* Mutant: the comparison written score >= threshold.
AtLeastThreshold(score) == ~RatLess(score, <<ThresholdNum, ThresholdDen>>)

\* score > config.JACCARD_THRESHOLD
AboveThreshold(score) == RatLess(<<ThresholdNum, ThresholdDen>>, score)

\* Mutant: the row compared against every other book, for j in range(n), j != i.
RowRangeAll(i, n) == (0..(n - 1)) \ {i}

\* The (i, j) visited by worker_compare_row(i): for j in range(i + 1, n).
RowRange(i, n) == (i + 1)..(n - 1)

\* Mutant: the row stops one book short, so which pairs are compared depends
\* on the book that is enumerated last.
worker_compare_row_short(i, ids, bks) ==
    LET n == Len(ids)
        id_a == ids[i + 1]
        score(j) == compute_jaccard(bks[id_a], bks[ids[j + 1]])
        RECURSIVE Loop(_)
        Loop(j) ==
            IF j >= n - 1 THEN <<>>
            ELSE (IF j > i /\ AboveThreshold(score(j))
                  THEN <<<<id_a, ids[j + 1], score(j)>>>>
                  ELSE <<>>) \o Loop(j + 1)
    IN  Loop(0)

\* worker_compare_row(i) over SHARED_IDS = ids (0-based i) and SHARED_BOOKS.
worker_compare_row(i, ids, bks) ==
    LET n == Len(ids)
        id_a == ids[i + 1]
        js == RowRange(i, n)
        score(j) == compute_jaccard(bks[id_a], bks[ids[j + 1]])
        RECURSIVE Loop(_)
        Loop(j) ==
            IF j >= n THEN <<>>
            ELSE (IF j \in js /\ AboveThreshold(score(j))
                  THEN <<<<id_a, ids[j + 1], score(j)>>>>
                  ELSE <<>>) \o Loop(j + 1)
    IN  Loop(0)

\* ------------------------------------------------------------ input corpus
Words == <<"w01", "w02", "w03", "w04", "w05", "w06", "w07", "w08", "w09", "w10",
           "w11", "w12", "w13", "w14", "w15", "w16", "w17", "w18", "w19", "w20">>

IdStrings == <<"1", "2", "3", "4", "5", "6", "7", "8", "9", "10", "11", "12", "13", "14">>

\* The integer that pandas.read_csv parses from the id text s.
ParseId(s) == CHOOSE k \in 1..Len(IdStrings) : IdStrings[k] = s

\* filename.replace(".txt", "")
StripTxt(name) ==
    IF \E s \in Range(IdStrings) : s \o ".txt" = name
    THEN CHOOSE s \in Range(IdStrings) : s \o ".txt" = name
    ELSE name

\* f.endswith(".txt")
EndsWithTxt(name) == \E s \in Range(IdStrings) : s \o ".txt" = name

TextFile(name, text) == [name |-> name, kind |-> "text", text |-> text]

\* The files a books directory may hold: readable texts, a file whose open or
\* read raises IOError, a file that is not valid UTF-8, a file that is no book.
Catalogue ==
    { TextFile("1.txt", <<"The", "Whale,", "sea", "ship", "of">>),
      TextFile("2.txt", <<"sea", "Ship", "storm", "--", "an">>),
      TextFile("4.txt", <<"Sea.", "WHALE", "ship", "ship", "Les">>),
      TextFile("5.txt", <<"the", "of", "it", "--">>),
      TextFile("8.txt", <<>>),
      [name |-> "9.txt", kind |-> "ioerror", text |-> <<>>],
      [name |-> "10.txt", kind |-> "undecodable", text |-> <<>>],
      TextFile("notes.md", <<"whale", "sea", "ship">>) }

\* Mappings handed to build_edges_parallel directly: the three-book example,
\* two books whose similarity is exactly the threshold (3 shared terms of 20)
\* and a ring of BigBooks books (more rows than one chunk of the pool).
ExampleBooks ==
    [ids |-> <<"1", "2", "3">>,
     books |-> ("1" :> {"a", "b", "c"}) @@ ("2" :> {"b", "c", "d"}) @@ ("3" :> {"x", "y", "z"})]

RingBooks ==
    [ids |-> SubSeq(IdStrings, 1, BigBooks),
     books |-> [s \in Range(SubSeq(IdStrings, 1, BigBooks)) |->
                  {Words[ParseId(s)], Words[ParseId(s) + 1], Words[ParseId(s) + 2]}]]

ThresholdBooks ==
    [ids |-> <<"6", "7">>,
     books |-> ("6" :> Range(SubSeq(Words, 1, 12))) @@ ("7" :> Range(SubSeq(Words, 10, 20)))]

DirectCorpora == {ExampleBooks, ThresholdBooks, RingBooks}

NoBooks == [s \in {} |-> {}]

\* ------------------------------------------------------------------- state
VARIABLES
    entry,          \* "main": the script is run; "direct": build_edges_parallel is called
    config_api,     \* the attributes the imported config module defines
    in_docker,      \* config.IN_DOCKER
    system_cores,   \* config.SYSTEM_CORES
    listing,        \* os.listdir(BOOKS_DIR), in the order the system returns it
    pc,             \* position of the parent process
    error,          \* the exception that ended the run, "" if none
    books,          \* book id -> term set
    book_ids,       \* list(books.keys())
    pool1,          \* the similarity pool: one record per chunk of rows
    compared,       \* calls of compute_jaccard so far, as <<i, j>> -> count
    edges,          \* the merged edge list
    nodes_list,     \* list(graph.nodes())
    graph,          \* the distance graph: set of <<u, v, dist>>
    pagerank,       \* node -> authority
    pool2,          \* the closeness pool: one record per chunk of nodes
    df_ranks,       \* the records compute_centrality_parallel returns
    rank_file,      \* config.RANK_FILE on disk
    graph_file      \* config.GRAPH_FILE on disk

buildVars == <<entry, config_api, in_docker, system_cores, listing, pc, error, books,
               book_ids, pool1, compared, edges, nodes_list, graph, pagerank, pool2,
               df_ranks, rank_file, graph_file>>

VARIABLES
    jac,            \* one call of compute_jaccard: its arguments and results
    rank,           \* one call of calculate_ranking: its arguments and result
    alloc,          \* reads of one WORKERS profile: the context and the values read
    dst,            \* one conversion of two accepted similarities to distances
    dl,             \* one run of fetch_books: its locals, the pool's tasks, the disk
    run_main,       \* os.environ.get('RUN_MAIN') of the serving process
    ranks_csv,      \* DATA_DIR/book_ranks.csv as the serving process finds it
    graph_csv,      \* DATA_DIR/book_graph.csv as the serving process finds it
    srv_pc,         \* "boot" before ready() has run, "serving" after
    book_ranks,     \* GutenbergApiConfig.book_ranks
    book_graph,     \* GutenbergApiConfig.book_graph
    read_err,       \* the <<id, column>> cells of book_ranks read_csv parsed inexactly
    response        \* the response to the last request handled

serveVars == <<run_main, ranks_csv, graph_csv, srv_pc, book_ranks, book_graph, read_err,
               response>>

notBuildVars == <<jac, rank, alloc, dst, dl, serveVars>>

vars == <<buildVars, jac, rank, alloc, dst, dl, serveVars>>

\* What is on disk before the run: tables of an earlier run.
OldRanks == <<[id |-> "1", pagerank |-> 1, closeness |-> <<1, 1>>]>>
OldGraph == <<<<"1", "2", <<1, 1>>>>>>

\* ------------------------------------------------- build_graphs.py: loading
\* The loop of load_books over file_list: [ok, ids, books]; ok is FALSE when a
\* file raises an exception that `except IOError` does not catch.
RECURSIVE LoadLoop(_, _)
LoadLoop(file_list, acc) ==
    IF file_list = <<>> THEN acc
    ELSE LET f == Head(file_list)
             book_id == StripTxt(f.name)
         IN  CASE f.kind = "ioerror" -> LoadLoop(Tail(file_list), acc)
               [] f.kind = "undecodable" -> [acc EXCEPT !.ok = FALSE]
               [] OTHER ->
                    LoadLoop(Tail(file_list),
                             [ok |-> TRUE,
                              ids |-> IF book_id \in Range(acc.ids) THEN acc.ids
                                      ELSE Append(acc.ids, book_id),
                              books |-> (book_id :> clean_text(f.text)) @@ acc.books])

load_books(dir) ==
    LoadLoop(SelectSeq(dir, LAMBDA f : EndsWithTxt(f.name)),
             [ok |-> TRUE, ids |-> <<>>, books |-> NoBooks])

\* ------------------------------------------------------ multiprocessing.Pool
\* Pool._get_tasks: the rows 0..n-1 in batches of `size` consecutive rows.
RowChunks(n, size) ==
    [c \in 1..((n + size - 1) \div size) |->
        [k \in 1..(Min(c * size, n) - (c - 1) * size) |-> (c - 1) * size + k - 1]]

NewTask(items) == [items |-> items, status |-> "queued", next |-> 0, out |-> <<>>]

Running(pool) == {c \in 1..Len(pool) : pool[c].status = "running"}

\* The task queue is served in order: the next task is the first queued one.
NextQueued(pool, c) ==
    /\ c \in 1..Len(pool)
    /\ pool[c].status = "queued"
    /\ \A d \in 1..(c - 1) : pool[d].status # "queued"

\* Mutant: the result handed over as soon as one task has reported.
MapReadyFirst(pool) == \E c \in 1..Len(pool) : pool[c].status \in {"done", "failed"}

\* MapResult._set: the result is ready once every task has reported.
MapReady(pool) == \A c \in 1..Len(pool) : pool[c].status \in {"done", "failed"}

\* Mutant: a failure inside a task is not reported to the caller of map.
MapFailedNever(pool) == FALSE

\* MapResult.get re-raises when a task has reported an exception.
MapFailed(pool) == \E c \in 1..Len(pool) : pool[c].status = "failed"

\* The pool sizes build_graphs.py reads from config.
WORKERS_JACCARD == ram_intensive(in_docker, system_cores)

WORKERS_CLOSENESS == cpu_intensive(in_docker, system_cores)

Crash(what) ==
    /\ pc' = "crashed"
    /\ error' = what

\* ---------------------------------------------------- __main__: load_books
Load ==
    /\ pc = "start"
    /\ IF "BOOKS_DIR" \notin ConfigNames(config_api)
       THEN /\ Crash("AttributeError")
            /\ UNCHANGED <<books, book_ids>>
       ELSE LET r == load_books(listing)
            IN  IF ~r.ok
                THEN /\ Crash("UnicodeDecodeError")
                     /\ UNCHANGED <<books, book_ids>>
                ELSE /\ books' = r.books
                     /\ book_ids' = r.ids
                     /\ pc' = IF r.ids # <<>> THEN "build" ELSE "finished"
                     /\ error' = ""
    /\ UNCHANGED <<notBuildVars, entry, config_api, in_docker, system_cores, listing, pool1, compared,
                   edges, nodes_list, graph, pagerank, pool2, df_ranks, rank_file,
                   graph_file>>

\* ----------------------------------------------------- build_edges_parallel
StartPool1 ==
    /\ pc = "build"
    /\ IF "WORKERS_JACCARD" \notin ConfigNames(config_api)
       THEN /\ Crash("AttributeError")
            /\ UNCHANGED <<pool1, compared>>
       ELSE /\ pool1' = [c \in DOMAIN RowChunks(Len(book_ids), chunksize) |->
                            NewTask(RowChunks(Len(book_ids), chunksize)[c])]
            /\ compared' = [p \in (0..(Len(book_ids) - 1)) \X (0..(Len(book_ids) - 1)) |-> 0]
            /\ pc' = "map1"
            /\ error' = ""
    /\ UNCHANGED <<notBuildVars, entry, config_api, in_docker, system_cores, listing, books, book_ids,
                   edges, nodes_list, graph, pagerank, pool2, df_ranks, rank_file,
                   graph_file>>

TakeChunk1(c) ==
    /\ pc = "map1"
    /\ NextQueued(pool1, c)
    /\ Cardinality(Running(pool1)) < WORKERS_JACCARD
    /\ pool1' = [pool1 EXCEPT ![c].status = "running"]
    /\ UNCHANGED <<notBuildVars, entry, config_api, in_docker, system_cores, listing, pc, error, books,
                   book_ids, compared, edges, nodes_list, graph, pagerank, pool2,
                   df_ranks, rank_file, graph_file>>

\* One call worker_compare_row(i) inside a worker process.
CompareRow(c) ==
    /\ pc = "map1"
    /\ c \in Running(pool1)
    /\ LET t == pool1[c]
           i == t.items[t.next + 1]
           last == t.next + 1 = Len(t.items)
       IN  /\ pool1' = [pool1 EXCEPT ![c] =
                          [t EXCEPT !.next = t.next + 1,
                                    !.out = Append(t.out, worker_compare_row(i, book_ids, books)),
                                    !.status = IF last THEN "done" ELSE "running"]]
           /\ compared' = [p \in DOMAIN compared |->
                              IF p[1] = i /\ p[2] \in RowRange(i, Len(book_ids))
                              THEN compared[p] + 1 ELSE compared[p]]
    /\ UNCHANGED <<notBuildVars, entry, config_api, in_docker, system_cores, listing, pc, error, books,
                   book_ids, edges, nodes_list, graph, pagerank, pool2, df_ranks,
                   rank_file, graph_file>>

\* A task raises inside the worker: the rest of its chunk is not run.
FailRow1(c) ==
    /\ pc = "map1"
    /\ c \in Running(pool1)
    /\ pool1' = [pool1 EXCEPT ![c].status = "failed"]
    /\ UNCHANGED <<notBuildVars, entry, config_api, in_docker, system_cores, listing, pc, error, books,
                   book_ids, compared, edges, nodes_list, graph, pagerank, pool2,
                   df_ranks, rank_file, graph_file>>

\* Mutant: the script goes on to the centrality step whatever the edge list.
MapReturn1Always ==
    /\ pc = "map1"
    /\ MapReady(pool1)
    /\ ~MapFailed(pool1)
    /\ edges' = Concat(Concat([c \in DOMAIN pool1 |-> pool1[c].out]))
    /\ pc' = IF entry = "direct" THEN "returned"
             ELSE "centrality"
    /\ UNCHANGED <<notBuildVars, entry, config_api, in_docker, system_cores, listing, error, books,
                   book_ids, pool1, compared, nodes_list, graph, pagerank, pool2,
                   df_ranks, rank_file, graph_file>>

\* pool.map returns; edges = [edge for sublist in results for edge in sublist].
MapReturn1 ==
    /\ pc = "map1"
    /\ MapReady(pool1)
    /\ ~MapFailed(pool1)
    /\ edges' = Concat(Concat([c \in DOMAIN pool1 |-> pool1[c].out]))
    /\ pc' = IF entry = "direct" THEN "returned"
             ELSE IF edges' # <<>> THEN "centrality" ELSE "finished"
    /\ UNCHANGED <<notBuildVars, entry, config_api, in_docker, system_cores, listing, error, books,
                   book_ids, pool1, compared, nodes_list, graph, pagerank, pool2,
                   df_ranks, rank_file, graph_file>>

\* pool.map re-raises the first exception of a task.
MapRaise1 ==
    /\ pc = "map1"
    /\ MapReady(pool1)
    /\ MapFailed(pool1)
    /\ Crash("WorkerError")
    /\ UNCHANGED <<notBuildVars, entry, config_api, in_docker, system_cores, listing, books, book_ids,
                   pool1, compared, edges, nodes_list, graph, pagerank, pool2, df_ranks,
                   rank_file, graph_file>>

\* ------------------------------------------------ compute_centrality_parallel
\* Mutant: the distance of a similarity of 1 left at 1.0 - w.
DistancePlain(w) == Rat(w[2] - w[1], w[2])

\* dist = 1.0 - w if w < 1.0 else 0.001
Distance(w) == IF RatLess(w, <<1, 1>>) THEN Rat(w[2] - w[1], w[2]) ELSE <<1, 1000>>

\* Mutant: both endpoints of every edge are appended, also when already present.
RECURSIVE NodesOfRepeated(_, _)
NodesOfRepeated(es, acc) ==
    IF es = <<>> THEN acc
    ELSE NodesOfRepeated(Tail(es), acc \o <<Head(es)[1], Head(es)[2]>>)

\* list(graph.nodes()): the endpoints of the edges in order of first appearance.
RECURSIVE NodesOf(_, _)
NodesOf(es, acc) ==
    IF es = <<>> THEN acc
    ELSE LET u == Head(es)[1]
             v == Head(es)[2]
             a1 == IF u \in Range(acc) THEN acc ELSE Append(acc, u)
             a2 == IF v \in Range(a1) THEN a1 ELSE Append(a1, v)
         IN  NodesOf(Tail(es), a2)

\* graph.add_edge(u, v, weight=dist) for every edge: a later edge between the
\* same two nodes replaces the weight of an earlier one.
RECURSIVE AddEdges(_, _)
AddEdges(es, g) ==
    IF es = <<>> THEN g
    ELSE LET u == Head(es)[1]
             v == Head(es)[2]
             kept == {e \in g : {e[1], e[2]} # {u, v}}
         IN  AddEdges(Tail(es), kept \cup {<<u, v, Distance(Head(es)[3])>>})

\* Mutant: every chunk but the last runs one item into the next chunk.
array_split_overlap(items, k) ==
    LET q == Len(items) \div k
        r == Len(items) % k
        start(c) == (c - 1) * q + Min(c - 1, r)
    IN  [c \in 1..k |-> SubSeq(items, start(c) + 1, Min(start(c + 1) + 1, Len(items)))]

\* np.array_split(items, k): k contiguous chunks, the first Len % k one longer.
array_split(items, k) ==
    LET q == Len(items) \div k
        r == Len(items) % k
        start(c) == (c - 1) * q + Min(c - 1, r)
    IN  [c \in 1..k |-> SubSeq(items, start(c) + 1, start(c + 1))]

Inf == <<1, 0>>

RatAdd(p, q) == Rat(p[1] * q[2] + q[1] * p[2], p[2] * q[2])

RatMin(p, q) == IF RatLess(q, p) THEN q ELSE p

RECURSIVE RatSum(_, _)
RatSum(f, S) ==
    IF S = {} THEN <<0, 1>>
    ELSE LET x == CHOOSE y \in S : TRUE IN RatAdd(f[x], RatSum(f, S \ {x}))

RECURSIVE MinOver(_)
MinOver(S) ==
    IF S = {} THEN Inf
    ELSE LET x == CHOOSE y \in S : TRUE IN RatMin(x, MinOver(S \ {x}))

\* Weighted shortest-path lengths from u in the undirected graph g, after k
\* rounds of relaxation.
RECURSIVE ShortestFrom(_, _, _, _)
ShortestFrom(g, nodes, u, k) ==
    IF k = 0 THEN [v \in nodes |-> IF v = u THEN <<0, 1>> ELSE Inf]
    ELSE LET d == ShortestFrom(g, nodes, u, k - 1)
             via(v) == {RatAdd(d[e[1]], e[3]) : e \in {e \in g : e[2] = v /\ d[e[1]] # Inf}}
                       \cup {RatAdd(d[e[2]], e[3]) : e \in {e \in g : e[1] = v /\ d[e[2]] # Inf}}
         IN  [v \in nodes |-> RatMin(d[v], MinOver(via(v)))]

\* nx.closeness_centrality(g, u=node, distance='weight'), wf_improved.
closeness_centrality(g, nodes, u) ==
    LET sp == ShortestFrom(g, nodes, u, Cardinality(nodes))
        reach == {v \in nodes : sp[v] # Inf}
        totsp == RatSum(sp, reach)
        len_G == Cardinality(nodes)
        r == Cardinality(reach) - 1
    IN  IF totsp[1] > 0 /\ len_G > 1
        THEN Rat(r * r * totsp[2], totsp[1] * (len_G - 1))
        ELSE <<0, 1>>

\* worker_closeness(nodes_subset): node -> closeness, as a set of pairs.
worker_closeness(nodes_subset, g, nodes) ==
    {<<nodes_subset[k], closeness_centrality(g, nodes, nodes_subset[k])>> :
        k \in 1..Len(nodes_subset)}

\* closeness.update(res) for every res of results, in order: the value of a
\* key is the one of the last result that holds it.
RECURSIVE MergeCloseness(_, _)
MergeCloseness(results, acc) ==
    IF results = <<>> THEN acc
    ELSE LET res == Head(results)
             keys == {p[1] : p \in res}
         IN  MergeCloseness(Tail(results), {p \in acc : p[1] \notin keys} \cup res)

\* dict.get(key, 0) on a dictionary held as a set of pairs.
Get(dict, key, default) ==
    IF \E p \in dict : p[1] = key THEN (CHOOSE p \in dict : p[1] = key)[2] ELSE default

\* nx.pagerank(pr_graph, weight='weight') is library code: its result is taken
\* to be one of these score assignments over the nodes (all equal, rising
\* along the node list, falling along it, equal in pairs).
PagerankOutcomes(nodes) ==
    LET n == Len(nodes)
    IN  { {<<nodes[k], 1>> : k \in 1..n},
          {<<nodes[k], k>> : k \in 1..n},
          {<<nodes[k], n + 1 - k>> : k \in 1..n},
          {<<nodes[k], (k + 1) \div 2>> : k \in 1..n} }

\* Lines 141-167: both graphs, PageRank, the chunks handed to the pool.
StartPool2 ==
    /\ pc = "centrality"
    /\ IF "WORKERS_CLOSENESS" \notin ConfigNames(config_api)
       THEN /\ Crash("AttributeError")
            /\ UNCHANGED <<nodes_list, graph, pagerank, pool2>>
       ELSE /\ nodes_list' = NodesOf(edges, <<>>)
            /\ graph' = AddEdges(edges, {})
            /\ pagerank' \in PagerankOutcomes(NodesOf(edges, <<>>))
            /\ pool2' = IF nodes_list' = <<>> THEN <<>>
                        ELSE LET chunks == array_split(nodes_list',
                                               Min(Len(nodes_list'), WORKERS_CLOSENESS))
                             IN  [c \in DOMAIN chunks |-> NewTask(chunks[c])]
            /\ pc' = "map2"
            /\ error' = ""
    /\ UNCHANGED <<notBuildVars, entry, config_api, in_docker, system_cores, listing, books, book_ids,
                   pool1, compared, edges, df_ranks, rank_file, graph_file>>

TakeChunk2(c) ==
    /\ pc = "map2"
    /\ NextQueued(pool2, c)
    /\ Cardinality(Running(pool2)) < WORKERS_CLOSENESS
    /\ pool2' = [pool2 EXCEPT ![c].status = "running"]
    /\ UNCHANGED <<notBuildVars, entry, config_api, in_docker, system_cores, listing, pc, error, books,
                   book_ids, pool1, compared, edges, nodes_list, graph, pagerank,
                   df_ranks, rank_file, graph_file>>

\* One call worker_closeness(nodes_subset) inside a worker process.
ClosenessChunk(c) ==
    /\ pc = "map2"
    /\ c \in Running(pool2)
    /\ pool2' = [pool2 EXCEPT ![c] =
                    [pool2[c] EXCEPT
                        !.next = Len(pool2[c].items),
                        !.out = <<worker_closeness(pool2[c].items, graph, Range(nodes_list))>>,
                        !.status = "done"]]
    /\ UNCHANGED <<notBuildVars, entry, config_api, in_docker, system_cores, listing, pc, error, books,
                   book_ids, pool1, compared, edges, nodes_list, graph, pagerank,
                   df_ranks, rank_file, graph_file>>

FailChunk2(c) ==
    /\ pc = "map2"
    /\ c \in Running(pool2)
    /\ pool2' = [pool2 EXCEPT ![c].status = "failed"]
    /\ UNCHANGED <<notBuildVars, entry, config_api, in_docker, system_cores, listing, pc, error, books,
                   book_ids, pool1, compared, edges, nodes_list, graph, pagerank,
                   df_ranks, rank_file, graph_file>>

\* Lines 170-187: pool.map returns, the results are merged, the frame is built.
MapReturn2 ==
    /\ pc = "map2"
    /\ MapReady(pool2)
    /\ ~MapFailed(pool2)
    /\ LET results == Concat([c \in DOMAIN pool2 |-> pool2[c].out])
           closeness == MergeCloseness(results, {})
       IN  df_ranks' = [k \in DOMAIN nodes_list |->
                           [id |-> nodes_list[k],
                            pagerank |-> Get(pagerank, nodes_list[k], 0),
                            closeness |-> Get(closeness, nodes_list[k], <<0, 1>>)]]
    /\ pc' = "save"
    /\ UNCHANGED <<notBuildVars, entry, config_api, in_docker, system_cores, listing, error, books,
                   book_ids, pool1, compared, edges, nodes_list, graph, pagerank, pool2,
                   rank_file, graph_file>>

MapRaise2 ==
    /\ pc = "map2"
    /\ MapReady(pool2)
    /\ MapFailed(pool2)
    /\ Crash("WorkerError")
    /\ UNCHANGED <<notBuildVars, entry, config_api, in_docker, system_cores, listing, books, book_ids,
                   pool1, compared, edges, nodes_list, graph, pagerank, pool2, df_ranks,
                   rank_file, graph_file>>

\* ------------------------------------------------------------------ save_data
\* Mutant: the sort left at its default, ascending.
SortedAscending(rows) ==
    {t \in Arrangements(Range(rows), Len(rows)) :
        /\ Len(t) = Len(rows)
        /\ \A k \in 1..(Len(t) - 1) : t[k].pagerank <= t[k + 1].pagerank}

\* df.sort_values("pagerank", ascending=False): an ordering of the rows by
\* pagerank, largest first; rows of equal pagerank in any order (quicksort).
SortedByPagerank(rows) ==
    {t \in Arrangements(Range(rows), Len(rows)) :
        /\ Len(t) = Len(rows)
        /\ \A k \in 1..(Len(t) - 1) : t[k].pagerank >= t[k + 1].pagerank}

SaveData ==
    /\ pc = "save"
    /\ IF "RANK_FILE" \notin ConfigNames(config_api)
       THEN /\ Crash("AttributeError")
            /\ UNCHANGED <<df_ranks, rank_file, graph_file>>
       ELSE /\ df_ranks' \in SortedByPagerank(df_ranks)
            /\ rank_file' = df_ranks'
            /\ graph_file' = edges
            /\ pc' = "finished"
            /\ error' = ""
    /\ UNCHANGED <<notBuildVars, entry, config_api, in_docker, system_cores, listing, books, book_ids,
                   pool1, compared, edges, nodes_list, graph, pagerank, pool2>>

\* ------------------------------------------------------------ specification
\* The process environments: inside the container the allocator does not
\* read SYSTEM_CORES.
Environments ==
    {<<TRUE, MaxCores>>} \cup {<<FALSE, k>> : k \in 1..MaxCores}

InitBuild ==
    /\ config_api \in {"flat", "dict"}
    /\ \E env \in Environments :
          /\ in_docker = env[1]
          /\ system_cores = env[2]
    /\ \/ /\ entry = "main"
          /\ listing \in Arrangements(Catalogue, IF config_api = "dict" THEN 1 ELSE MaxBooks)
          /\ books = NoBooks
          /\ book_ids = <<>>
          /\ pc = "start"
       \/ /\ entry = "direct"
          /\ listing = <<>>
          /\ \E corpus \in DirectCorpora :
                /\ books = corpus.books
                /\ book_ids = corpus.ids
          /\ pc = "build"
    /\ error = ""
    /\ pool1 = <<>>
    /\ compared = <<>>
    /\ edges = <<>>
    /\ nodes_list = <<>>
    /\ graph = {}
    /\ pagerank = {}
    /\ pool2 = <<>>
    /\ df_ranks = <<>>
    /\ rank_file = OldRanks
    /\ graph_file = OldGraph

\* Values of the variables of the build stage while another part is examined.
IdleBuild ==
    /\ entry = "none"
    /\ config_api = "flat"
    /\ in_docker = FALSE
    /\ system_cores = 1
    /\ listing = <<>>
    /\ pc = "none"
    /\ error = ""
    /\ books = NoBooks
    /\ book_ids = <<>>
    /\ pool1 = <<>>
    /\ compared = <<>>
    /\ edges = <<>>
    /\ nodes_list = <<>>
    /\ graph = {}
    /\ pagerank = {}
    /\ pool2 = <<>>
    /\ df_ranks = <<>>
    /\ rank_file = OldRanks
    /\ graph_file = OldGraph

NoCall == [called |-> FALSE]

IdleJaccard == jac = NoCall

IdleRank == rank = NoCall

IdleAlloc == alloc = [docker |-> FALSE, cores |-> 1, profile |-> "none", reads |-> <<>>]

IdleDistance == dst = NoCall

IdleDownload == dl = [pc |-> "none"]

IdleServe ==
    /\ run_main = "unset"
    /\ ranks_csv = [state |-> "missing", rows |-> <<>>]
    /\ graph_csv = [state |-> "missing", rows |-> <<>>]
    /\ srv_pc = "none"
    /\ book_ranks = {}
    /\ book_graph = {}
    /\ read_err = {}
    /\ response = [kind |-> "none", arg |-> 0, status |-> 0, count |-> 0, results |-> <<>>,
                   queried |-> {}]

Init == InitBuild /\ IdleJaccard /\ IdleRank /\ IdleAlloc /\ IdleDistance /\ IdleDownload /\ IdleServe

Next ==
    \/ Load
    \/ StartPool1
    \/ \E c \in DOMAIN pool1 : TakeChunk1(c)
    \/ \E c \in DOMAIN pool1 : CompareRow(c)
    \/ \E c \in DOMAIN pool1 : FailRow1(c)
    \/ MapReturn1
    \/ MapRaise1
    \/ StartPool2
    \/ \E c \in DOMAIN pool2 : TakeChunk2(c)
    \/ \E c \in DOMAIN pool2 : ClosenessChunk(c)
    \/ \E c \in DOMAIN pool2 : FailChunk2(c)
    \/ MapReturn2
    \/ MapRaise2
    \/ SaveData

Spec == Init /\ [][Next]_vars

\* ------------------------------------------------ query time: the snapshot
\* Mutant: the table is read without its header line, the first record is
\* taken for the column names and is lost.
RanksToDictNoHeader(rows) ==
    [ok |-> \A k, l \in DOMAIN rows : rows[k].id = rows[l].id => k = l,
     dict |-> {<<ParseId(rows[k].id),
                 [pagerank |-> rows[k].pagerank, closeness |-> rows[k].closeness]>> :
                 k \in DOMAIN rows \ {1}}]

\* df.set_index('id').to_dict('index') on the rows read from the ranks table:
\* id -> {'pagerank', 'closeness'}, ids parsed as integers; a repeated id
\* makes to_dict raise.
RanksToDict(rows) ==
    [ok |-> \A k, l \in DOMAIN rows : rows[k].id = rows[l].id => k = l,
     dict |-> {<<ParseId(rows[k].id),
                 [pagerank |-> rows[k].pagerank, closeness |-> rows[k].closeness]>> :
                 k \in DOMAIN rows}]

\* Mutant: a hit without a record is given the authority of a ranked book.
GetStatsRanked(ranks, book_id) == Get(ranks, book_id, [pagerank |-> 100, closeness |-> <<0, 1>>])

\* book_ranks.get(book_id, {'pagerank': 0, 'closeness': 0})
GetStats(ranks, book_id) == Get(ranks, book_id, [pagerank |-> 0, closeness |-> <<0, 1>>])

\* ------------------------------------------------ compute_jaccard, alone
Terms == Range(SubSeq(Words, 1, MaxTerms))

InitJaccard ==
    /\ IdleBuild /\ IdleRank /\ IdleAlloc /\ IdleDistance /\ IdleDownload /\ IdleServe
    /\ \E A \in SUBSET Terms, B \in SUBSET Terms :
          jac = [called |-> FALSE, a |-> A, b |-> B]

CallJaccard ==
    /\ ~jac.called
    /\ jac' = [called |-> TRUE, a |-> jac.a, b |-> jac.b,
               ab |-> compute_jaccard(jac.a, jac.b),
               ba |-> compute_jaccard(jac.b, jac.a),
               aa |-> compute_jaccard(jac.a, jac.a)]
    /\ UNCHANGED <<buildVars, rank, alloc, dst, dl, serveVars>>

NextJaccard == CallJaccard

SpecJaccard == InitJaccard /\ [][NextJaccard]_vars

\* ------------------------------------------- views.py: calculate_ranking
\* round(x, 4) of x = num / den ten-thousandths, den > 0: the nearest
\* integer, a tie going to the even one.
Round4(num, den) ==
    LET q == num \div den
        r == num % den
    IN  IF 2 * r < den THEN q
        ELSE IF 2 * r > den THEN q + 1
        ELSE IF q % 2 = 0 THEN q ELSE q + 1

\* max((hit.meta.score for hit in es_results), default=1.0)
MaxScore(es_results) ==
    IF es_results = <<>> THEN 1
    ELSE CHOOSE m \in {es_results[k].score : k \in DOMAIN es_results} :
            \A k \in DOMAIN es_results : es_results[k].score <= m

\* Mutant: the maximum used as it is.
NormalizerRaw(m) == m

\* if max_es == 0: max_es = 1.0
Normalizer(m) == IF m = 0 THEN 1 ELSE m

\* Mutant: the two weights exchanged.
FinalScoreSwapped(es_score, max_es, pr) == Round4(3000 * es_score + 35 * pr * max_es, max_es)

\* round((es_score / max_es) * 0.7 + (pagerank * 50) * 0.3, 4) in
\* ten-thousandths, pagerank given in ten-thousandths.
FinalScore(es_score, max_es, pr) == Round4(7000 * es_score + 15 * pr * max_es, max_es)

\* Mutant: ties left in reverse input order (an ascending sort, reversed).
RECURSIVE SortReversed(_)
SortReversed(rows) ==
    IF rows = <<>> THEN <<>>
    ELSE LET rest == SortReversed(Tail(rows))
             x == Head(rows)
             before == SelectSeq(rest, LAMBDA y : y.score >= x.score)
             after == SelectSeq(rest, LAMBDA y : y.score < x.score)
         IN  before \o <<x>> \o after

\* ranked_results.sort(key=lambda x: x['score'], reverse=True): stable.
RECURSIVE SortByScore(_)
SortByScore(rows) ==
    IF rows = <<>> THEN <<>>
    ELSE LET rest == SortByScore(Tail(rows))
             x == Head(rows)
             before == SelectSeq(rest, LAMBDA y : y.score > x.score)
             after == SelectSeq(rest, LAMBDA y : y.score <= x.score)
         IN  before \o <<x>> \o after

\* calculate_ranking(es_results) against the snapshot ranks. pos is the
\* position of the hit in es_results. ok is FALSE when the division raises.
calculate_ranking(es_results, ranks) ==
    LET max_es == Normalizer(MaxScore(es_results))
        row(k) ==
            LET hit == es_results[k]
                pr == GetStats(ranks, hit.gutenberg_id).pagerank
            IN  [id |-> hit.gutenberg_id,
                 pos |-> k,
                 score |-> FinalScore(hit.score, max_es, pr),
                 pagerank |-> pr]
    IN  IF max_es = 0 /\ es_results # <<>>
        THEN [ok |-> FALSE, results |-> <<>>]
        ELSE [ok |-> TRUE, results |-> SortByScore([k \in DOMAIN es_results |-> row(k)])]

Stats(pr) == [pagerank |-> pr, closeness |-> <<1, 1>>]

\* Snapshots: the authorities of the example, a snapshot that knows book 1
\* only, an empty one.
ExampleRanks == {<<1, Stats(200)>>, <<2, Stats(100)>>, <<3, Stats(0)>>}

RankSnapshots == {ExampleRanks, {<<1, Stats(200)>>}, {}}

Relevances == {0, 5, 6, 10}

HitPool == {[gutenberg_id |-> i, score |-> r] : i \in {1, 2, 3}, r \in Relevances}

RECURSIVE Batches(_)
Batches(n) ==
    IF n = 0 THEN {<<>>}
    ELSE Batches(n - 1) \cup {Append(b, h) : b \in {b \in Batches(n - 1) : Len(b) = n - 1}, h \in HitPool}

InitRank ==
    /\ IdleBuild /\ IdleJaccard /\ IdleAlloc /\ IdleDistance /\ IdleDownload /\ IdleServe
    /\ \E hits \in Batches(MaxHits), snapshot \in RankSnapshots :
          rank = [called |-> FALSE, hits |-> hits, ranks |-> snapshot]

CallRanking ==
    /\ ~rank.called
    /\ rank' = [called |-> TRUE, hits |-> rank.hits, ranks |-> rank.ranks,
                ok |-> calculate_ranking(rank.hits, rank.ranks).ok,
                results |-> calculate_ranking(rank.hits, rank.ranks).results]
    /\ UNCHANGED <<buildVars, jac, alloc, dst, dl, serveVars>>

NextRank == CallRanking

SpecRank == InitRank /\ [][NextRank]_vars

\* ------------------------------------------- apps.py, views.py: the service
\* s[0:10] of SuggestionView and final_results[:20] of SimpleSearchView.
SuggestionCap == 10
SimplePage == 20

\* The neighbours of the hub book in the largest edges table.
StarSize == 11

\* The 'target' cells of the rows whose 'source' cell is s, in row order, as
\* read_csv parses them.
RECURSIVE TargetsOf(_, _)
TargetsOf(rows, s) ==
    IF rows = <<>> THEN <<>>
    ELSE (IF Head(rows)[1] = s THEN <<ParseId(Head(rows)[2])>> ELSE <<>>)
         \o TargetsOf(Tail(rows), s)

\* df.groupby('source')['target'].apply(list).to_dict()
Adjacency(rows) ==
    {<<ParseId(s), TargetsOf(rows, s)>> : s \in {rows[k][1] : k \in DOMAIN rows}}

RankRow(id, pr) == [id |-> id, pagerank |-> pr, closeness |-> <<1, 1>>]

\* The cells of a ranks table whose text has digits after the point.
\* DataFrame.to_csv writes a float as its shortest repr, up to 17 significant
\* digits; whole values are written as 0.0 or 1.0.
LongCells(rows) ==
    {<<ParseId(rows[k].id), "pagerank">> : k \in {k \in DOMAIN rows : rows[k].pagerank # 0}}
    \cup {<<ParseId(rows[k].id), "closeness">> :
              k \in {k \in DOMAIN rows : rows[k].closeness[2] # 1}}

\* pd.read_csv(rank_path) with the default float converter keeps the first 17
\* digits of a cell, the zero before the point counted, and drops the rest:
\* a cell of 17 significant digits below 1 is parsed to a neighbouring
\* double. Which cells are that long depends on their digits; the outcomes
\* taken are none of the long cells, any one of them, all of them.
FloatReadOutcomes(rows) ==
    {S \in SUBSET LongCells(rows) : Cardinality(S) <= 1} \cup {LongCells(rows)}

\* book_ranks.csv under DATA_DIR: absent, unreadable as a table, or a table
\* as save_data writes it.
RanksTables ==
    { [state |-> "missing", rows |-> <<>>],
      [state |-> "corrupt", rows |-> <<>>],
      [state |-> "ok", rows |-> <<>>],
      [state |-> "ok", rows |-> <<RankRow("1", 200)>>],
      [state |-> "ok", rows |-> <<RankRow("1", 200), RankRow("2", 100), RankRow("3", 0)>>] }

\* book_graph.csv under DATA_DIR, likewise; the last table is a hub with
\* StarSize neighbours.
GraphTables ==
    { [state |-> "missing", rows |-> <<>>],
      [state |-> "corrupt", rows |-> <<>>],
      [state |-> "ok", rows |-> <<>>],
      [state |-> "ok", rows |-> <<<<"1", "2", <<1, 2>>>>>>],
      [state |-> "ok", rows |-> <<<<"1", "2", <<1, 2>>>>, <<"1", "4", <<1, 4>>>>,
                                  <<"2", "4", <<1, 5>>>>>>],
      [state |-> "ok", rows |-> [k \in 1..StarSize |-> <<"1", IdStrings[k + 1], <<1, 2>>>>]] }

\* What the search index answers to a query: an error, or a batch of hits.
EsOutcomes ==
    { [ok |-> FALSE, hits |-> <<>>],
      [ok |-> TRUE, hits |-> <<>>],
      [ok |-> TRUE, hits |-> <<[gutenberg_id |-> 1, score |-> 10],
                               [gutenberg_id |-> 2, score |-> 5],
                               [gutenberg_id |-> 3, score |-> 0]>>],
      [ok |-> TRUE, hits |-> <<[gutenberg_id |-> 4, score |-> 0],
                               [gutenberg_id |-> 1, score |-> 0]>>] }

\* The ids the search index may hold.
IndexedSets == {1..Len(IdStrings), {1, 2}}

\* request.query_params.get('q', '').strip()
Queries == {"", "whale"}

NoResponse ==
    [kind |-> "none", arg |-> 0, status |-> 0, count |-> 0, results |-> <<>>,
                   queried |-> {}]

InitServe ==
    /\ IdleBuild /\ IdleJaccard /\ IdleRank /\ IdleAlloc /\ IdleDistance /\ IdleDownload
    /\ run_main \in {"unset", "true", "false"}
    /\ ranks_csv \in RanksTables
    /\ graph_csv \in GraphTables
    /\ srv_pc = "boot"
    /\ book_ranks = {}
    /\ book_graph = {}
    /\ read_err = {}
    /\ response = NoResponse

\* Mutant: the two loads have no try/except, so a table that cannot be parsed
\* ends the startup with what was loaded before it.
ReadyUncaught ==
    /\ srv_pc = "boot"
    /\ IF run_main # "true"
       THEN /\ srv_pc' = "serving"
            /\ UNCHANGED <<book_ranks, book_graph, read_err>>
       ELSE IF ranks_csv.state = "corrupt"
       THEN /\ srv_pc' = "failed"
            /\ UNCHANGED <<book_ranks, book_graph, read_err>>
       ELSE /\ srv_pc' = IF graph_csv.state = "corrupt" THEN "failed" ELSE "serving"
            /\ IF ranks_csv.state = "ok"
               THEN /\ book_ranks' = RanksToDict(ranks_csv.rows).dict
                    /\ read_err' \in FloatReadOutcomes(ranks_csv.rows)
               ELSE UNCHANGED <<book_ranks, read_err>>
            /\ book_graph' =
                  IF graph_csv.state = "ok" THEN Adjacency(graph_csv.rows) ELSE book_graph
    /\ UNCHANGED <<buildVars, jac, rank, alloc, dst, dl, run_main, ranks_csv, graph_csv, response>>

\* GutenbergApiConfig.ready, run by Django's setup before requests are served.
Ready ==
    /\ srv_pc = "boot"
    /\ srv_pc' = "serving"
    /\ IF run_main # "true"
       THEN UNCHANGED <<book_ranks, book_graph, read_err>>
       ELSE /\ IF ranks_csv.state = "ok" /\ RanksToDict(ranks_csv.rows).ok
               THEN /\ book_ranks' = RanksToDict(ranks_csv.rows).dict
                    /\ read_err' \in FloatReadOutcomes(ranks_csv.rows)
               ELSE UNCHANGED <<book_ranks, read_err>>
            /\ book_graph' =
                  IF graph_csv.state = "ok" THEN Adjacency(graph_csv.rows) ELSE book_graph
    /\ UNCHANGED <<buildVars, jac, rank, alloc, dst, dl, run_main, ranks_csv, graph_csv, response>>

\* The first n elements of a sequence.
Take(seq, n) == SubSeq(seq, 1, Min(n, Len(seq)))

\* Mutant: the lookup is dict.setdefault, which stores the default it returns.
DictAfterSetdefault(dict, key, default) ==
    IF \E p \in dict : p[1] = key THEN dict ELSE dict \cup {<<key, default>>}

\* The dictionary after dict.get(key, default): get stores nothing.
DictAfterGet(dict, key, default) == dict

\* book_ranks after the loop of calculate_ranking over es_results.
RECURSIVE RanksAfterRanking(_, _)
RanksAfterRanking(ranks, es_results) ==
    IF es_results = <<>> THEN ranks
    ELSE RanksAfterRanking(
             DictAfterGet(ranks, Head(es_results).gutenberg_id,
                          [pagerank |-> 0, closeness |-> <<0, 1>>]),
             Tail(es_results))

\* SimpleSearchView.get
SimpleSearch(q, es) ==
    /\ srv_pc = "serving"
    /\ response' =
          IF q = "" THEN [NoResponse EXCEPT !.kind = "simple", !.status = 400]
          ELSE IF ~es.ok THEN [NoResponse EXCEPT !.kind = "simple", !.status = 500]
          ELSE LET final_results == calculate_ranking(es.hits, book_ranks).results
               IN  [kind |-> "simple", arg |-> 0, status |-> 200, count |-> Len(final_results),
                    results |-> Take(final_results, SimplePage), queried |-> {}]
    /\ book_ranks' = IF q = "" \/ ~es.ok THEN book_ranks
                      ELSE RanksAfterRanking(book_ranks, es.hits)
    /\ UNCHANGED <<buildVars, jac, rank, alloc, dst, dl, run_main, ranks_csv, graph_csv, srv_pc,
                   book_graph, read_err>>

\* AdvancedSearchView.get
AdvancedSearch(q, es) ==
    /\ srv_pc = "serving"
    /\ response' =
          IF q = "" \/ ~es.ok THEN [NoResponse EXCEPT !.kind = "advanced", !.status = 400]
          ELSE LET final_results == calculate_ranking(es.hits, book_ranks).results
               IN  [kind |-> "advanced", arg |-> 0, status |-> 200, count |-> Len(final_results),
                    results |-> final_results, queried |-> {}]
    /\ book_ranks' = IF q = "" \/ ~es.ok THEN book_ranks
                      ELSE RanksAfterRanking(book_ranks, es.hits)
    /\ UNCHANGED <<buildVars, jac, rank, alloc, dst, dl, run_main, ranks_csv, graph_csv, srv_pc,
                   book_graph, read_err>>

\* Mutant: the answer of the index is not cut to its first SuggestionCap hits.
SuggestUncapped(book_id, indexed) ==
    /\ srv_pc = "serving"
    /\ LET neighbor_ids == Get(book_graph, book_id, <<>>)
           match == Range(neighbor_ids) \cap indexed
       IN  IF neighbor_ids = <<>>
           THEN response' = [NoResponse EXCEPT !.kind = "suggest", !.arg = book_id,
                                                 !.status = 200, !.results = {}]
           ELSE \E page \in SUBSET match :
                   /\ page = match
                   /\ response' = [kind |-> "suggest", arg |-> book_id, status |-> 200,
                                   count |-> 0,
                                   results |-> page, queried |-> Range(neighbor_ids)]
    /\ book_graph' = DictAfterGet(book_graph, book_id, <<>>)
    /\ UNCHANGED <<buildVars, jac, rank, alloc, dst, dl, run_main, ranks_csv, graph_csv, srv_pc,
                   book_ranks, read_err>>

\* SuggestionView.get. The index is asked for the books whose id is among
\* neighbor_ids and answers with at most SuggestionCap of those it holds, in
\* an order of its own: results is the set of ids answered.
Suggest(book_id, indexed) ==
    /\ srv_pc = "serving"
    /\ LET neighbor_ids == Get(book_graph, book_id, <<>>)
           match == Range(neighbor_ids) \cap indexed
       IN  IF neighbor_ids = <<>>
           THEN response' = [NoResponse EXCEPT !.kind = "suggest", !.arg = book_id,
                                                 !.status = 200, !.results = {}]
           ELSE \E page \in SUBSET match :
                   /\ Cardinality(page) = Min(SuggestionCap, Cardinality(match))
                   /\ response' = [kind |-> "suggest", arg |-> book_id, status |-> 200,
                                   count |-> 0,
                                   results |-> page, queried |-> Range(neighbor_ids)]
    /\ book_graph' = DictAfterGet(book_graph, book_id, <<>>)
    /\ UNCHANGED <<buildVars, jac, rank, alloc, dst, dl, run_main, ranks_csv, graph_csv, srv_pc,
                   book_ranks, read_err>>

NextServe ==
    \/ Ready
    \/ \E q \in Queries, es \in EsOutcomes : SimpleSearch(q, es)
    \/ \E q \in Queries, es \in EsOutcomes : AdvancedSearch(q, es)
    \/ \E book_id \in 1..Len(IdStrings), indexed \in IndexedSets : Suggest(book_id, indexed)

SpecServe == InitServe /\ [][NextServe]_vars

\* ------------------------------------------- config.py: WORKERS, alone
Profiles == {"ram_intensive", "cpu_intensive", "io_intensive", "download"}

\* WORKERS.<profile> in a process whose IN_DOCKER and SYSTEM_CORES are given.
ReadWorkers(profile, docker, cores) ==
    CASE profile = "ram_intensive" -> ram_intensive(docker, cores)
      [] profile = "cpu_intensive" -> cpu_intensive(docker, cores)
      [] profile = "io_intensive" -> io_intensive(docker, cores)
      [] profile = "download" -> download(docker, cores)

InitAlloc ==
    /\ IdleBuild /\ IdleJaccard /\ IdleRank /\ IdleDistance /\ IdleDownload /\ IdleServe
    /\ \E docker \in BOOLEAN, cores \in 1..MaxAllocCores, profile \in Profiles :
          alloc = [docker |-> docker, cores |-> cores, profile |-> profile, reads |-> <<>>]

\* One more read of the profile in the same process.
ReadProfile ==
    /\ alloc.profile # "none"
    /\ Len(alloc.reads) < MaxReads
    /\ alloc' = [alloc EXCEPT
                    !.reads = Append(@, ReadWorkers(alloc.profile, alloc.docker, alloc.cores))]
    /\ UNCHANGED <<buildVars, jac, rank, dst, dl, serveVars>>

NextAlloc == ReadProfile

SpecAlloc == InitAlloc /\ [][NextAlloc]_vars

\* ------------------------------- compute_centrality_parallel: dist, alone
\* Similarities two term sets can have that are close to 1: all but one term
\* of 1001 or of 2000 shared.
NearOne == {<<1000, 1001>>, <<1999, 2000>>}

\* Similarities an accepted edge can carry: above the threshold, at most 1.
AcceptedWeights ==
    {w \in {Rat(n, d) : n \in 1..MaxDen, d \in 1..MaxDen} \cup NearOne :
        AboveThreshold(w) /\ ~RatLess(<<1, 1>>, w)}

InitDistance ==
    /\ IdleBuild /\ IdleJaccard /\ IdleRank /\ IdleAlloc /\ IdleDownload /\ IdleServe
    /\ \E w1 \in AcceptedWeights, w2 \in AcceptedWeights :
          dst = [called |-> FALSE, w1 |-> w1, w2 |-> w2]

\* The loop of lines 144-146 over two edges of weights w1 and w2.
ConvertWeights ==
    /\ ~dst.called
    /\ dst' = [called |-> TRUE, w1 |-> dst.w1, w2 |-> dst.w2,
               d1 |-> Distance(dst.w1), d2 |-> Distance(dst.w2)]
    /\ UNCHANGED <<buildVars, jac, rank, alloc, dl, serveVars>>

NextDistance == ConvertWeights

SpecDistance == InitDistance /\ [][NextDistance]_vars

\* -------------------------------------------- download_books.py: fetch_books
\* CONSTRAINTS["target_books"], scaled down to the size of the listing below.
TargetBooks == 2

\* The buffer of the queueing test: potential_total >= target_count + 50.
Buffer == 50

\* The metadata is written each time its length is a multiple of 50.
SaveEvery == 50

\* The pages of the Gutendex listing: the ids of the books of each page.
ListPages == <<(<<1, 2>>), (<<3, 4>>)>>

Listed == UNION {Range(ListPages[k]) : k \in DOMAIN ListPages}

\* The metadata of a library that already holds target_count + 50 books.
BigLibrary == [k \in 1..(TargetBooks + Buffer) |-> 100 + k]

\* What fetch_books finds when it starts: the records of metadata.json (a
\* record is taken as its id; a missing or corrupted file is the empty list),
\* the ids of the .txt files of the books directory, those of zero length.
Libraries ==
    { [metadata |-> <<>>, disk |-> {}, hollow |-> {}],
      [metadata |-> <<>>, disk |-> {1, 9}, hollow |-> {}],
      [metadata |-> <<1>>, disk |-> {1, 2}, hollow |-> {2}],
      [metadata |-> BigLibrary, disk |-> Range(BigLibrary) \cup {9}, hollow |-> {}] }

\* A future whose task has returned, and one whose result is a record.
TaskDone(state) == state \in {"exist", "downloaded", "failed", "unsaved"}

TaskRecord(state) == state \in {"exist", "downloaded"}

\* The futures of a list that are done, in the order of the list.
DoneOf(futures, task) ==
    LET IsDone(id) == TaskDone(task[id])
    IN  SelectSeq(futures, IsDone)

\* The results that are records among the done futures of a list.
RecordsOf(futures, task) ==
    LET IsRecord(id) == TaskRecord(task[id])
    IN  SelectSeq(futures, IsRecord)

\* The futures of a list that are not done.
PendingOf(futures, task) ==
    LET IsPending(id) == ~TaskDone(task[id])
    IN  SelectSeq(futures, IsPending)

\* metadata.json after the harvest loop appended the records to the list: it
\* is rewritten whenever the list's length reaches a multiple of SaveEvery.
SavedDuringHarvest(file, metadata, records) ==
    LET ks == {k \in 1..Len(records) : (Len(metadata) + k) % SaveEvery = 0}
    IN  IF ks = {} THEN file
        ELSE metadata \o SubSeq(records, 1, CHOOSE k \in ks : \A l \in ks : l <= k)

InitDownload ==
    /\ IdleBuild /\ IdleJaccard /\ IdleRank /\ IdleAlloc /\ IdleDistance /\ IdleServe
    /\ \E lib \in Libraries :
          dl = [pc |-> "phase1",
                metadata_file |-> lib.metadata,
                books_metadata |-> lib.metadata,
                next_url |-> 1,
                all_futures |-> <<>>,
                task |-> [id \in Listed |-> "none"],
                disk |-> lib.disk,
                hollow |-> lib.hollow]

\* existing_ids: the ids of the records of books_metadata.
existing_ids == Range(dl.books_metadata)

\* PHASE 1, the queueing test failed: a listing page is fetched and a task
\* is submitted for each of its books that is not in existing_ids. (A 429 or
\* an exception of the request changes nothing and the loop tries again.)
SubmitPage ==
    /\ dl.pc = "phase1"
    /\ dl.next_url # 0
    /\ Len(dl.books_metadata) + Len(PendingOf(dl.all_futures, dl.task)) < TargetBooks + Buffer
    /\ LET results == ListPages[dl.next_url]
           IsNew(id) == id \notin existing_ids
           new == SelectSeq(results, IsNew)
       IN  dl' = [dl EXCEPT
                    !.next_url = IF dl.next_url < Len(ListPages) THEN dl.next_url + 1 ELSE 0,
                    !.task = [id \in Listed |-> IF id \in Range(new) THEN "queued" ELSE @[id]],
                    !.all_futures = @ \o new,
                    !.pc = "harvest"]
    /\ UNCHANGED <<buildVars, jac, rank, alloc, dst, serveVars>>

\* PHASE 1, the harvest that follows the submissions: the records of the done
\* futures are appended, the done futures leave all_futures, and the loop ends
\* when the target is reached or the listing has no next page.
HarvestPage ==
    /\ dl.pc = "harvest"
    /\ LET records == RecordsOf(dl.all_futures, dl.task)
           metadata == dl.books_metadata \o records
       IN  dl' = [dl EXCEPT
                    !.books_metadata = metadata,
                    !.metadata_file = SavedDuringHarvest(@, dl.books_metadata, records),
                    !.all_futures = PendingOf(@, dl.task),
                    !.pc = IF Len(metadata) >= TargetBooks \/ dl.next_url = 0
                           THEN "phase2" ELSE "phase1"]
    /\ UNCHANGED <<buildVars, jac, rank, alloc, dst, serveVars>>

\* PHASE 1, the queueing test held and the target is reached: stop_queuing.
\* (Below the target the loop sleeps and tests again.)
StopQueuing ==
    /\ dl.pc = "phase1"
    /\ dl.next_url # 0
    /\ Len(dl.books_metadata) + Len(PendingOf(dl.all_futures, dl.task)) >= TargetBooks + Buffer
    /\ Len(dl.books_metadata) >= TargetBooks
    /\ dl' = [dl EXCEPT !.pc = "phase2"]
    /\ UNCHANGED <<buildVars, jac, rank, alloc, dst, serveVars>>

\* PHASE 2, one turn of the loop over as_completed(all_futures): the next done
\* future is taken; the loop breaks if the target is reached, else the
\* future's record is appended. all_futures holds the futures not yet taken.
DrainOne(id) ==
    /\ dl.pc = "phase2"
    /\ id \in Range(dl.all_futures)
    /\ TaskDone(dl.task[id])
    /\ LET IsOther(other) == other # id
       IN  dl' = IF Len(dl.books_metadata) >= TargetBooks
                 THEN [dl EXCEPT !.pc = "exit"]
                 ELSE [dl EXCEPT
                         !.all_futures = SelectSeq(@, IsOther),
                         !.books_metadata =
                             IF TaskRecord(dl.task[id]) THEN Append(@, id) ELSE @]
    /\ UNCHANGED <<buildVars, jac, rank, alloc, dst, serveVars>>

\* PHASE 2 ends when as_completed has no future left.
DrainEnd ==
    /\ dl.pc = "phase2"
    /\ dl.all_futures = <<>>
    /\ dl' = [dl EXCEPT !.pc = "exit"]
    /\ UNCHANGED <<buildVars, jac, rank, alloc, dst, serveVars>>

\* Mutant: the executor is left without waiting for its tasks.
ShutdownNoWait(task) == TRUE

\* The end of the with block, ThreadPoolExecutor.__exit__: shutdown(wait=True)
\* returns once every submitted task has run to its end.
ShutdownWait(task) == \A id \in DOMAIN task : task[id] \notin {"queued", "running"}

\* The .txt files clean_orphans leaves: those whose name is str(book['id'])
\* for a record of valid_metadata.
clean_orphans(valid_metadata, files) == files \cap Range(valid_metadata)

\* After the with block: the final save, then clean_orphans(books_metadata).
FinalSave ==
    /\ dl.pc = "exit"
    /\ ShutdownWait(dl.task)
    /\ dl' = [dl EXCEPT
                !.metadata_file = dl.books_metadata,
                !.disk = clean_orphans(dl.books_metadata, @),
                !.hollow = clean_orphans(dl.books_metadata, @),
                !.pc = "done"]
    /\ UNCHANGED <<buildVars, jac, rank, alloc, dst, serveVars>>

\* A worker thread of the pool takes a queued task: process_book_task up to
\* its request. A book whose file is on disk and not empty is answered at once.
TaskStart(id) ==
    /\ dl.pc # "none"
    /\ dl.task[id] = "queued"
    /\ Cardinality({other \in Listed : dl.task[other] = "running"})
          < download(in_docker, system_cores)
    /\ dl' = [dl EXCEPT !.task[id] = IF id \in dl.disk \ dl.hollow THEN "exist" ELSE "running"]
    /\ UNCHANGED <<buildVars, jac, rank, alloc, dst, serveVars>>

\* What the rest of process_book_task can do: return None before any write
\* (no text url, a 429, too few words, an exception), write the file and
\* return its record, or return None because the write raised IOError, the
\* file being then left empty or partly written.
TaskOutcomes == {"failed", "downloaded", "unsaved_empty", "unsaved_partial"}

\* The task's request returns and the task runs to its end.
TaskFinish(id, outcome) ==
    /\ dl.pc # "none"
    /\ dl.task[id] = "running"
    /\ dl' = [dl EXCEPT
                !.task[id] = IF outcome \in {"unsaved_empty", "unsaved_partial"}
                             THEN "unsaved" ELSE outcome,
                !.disk = IF outcome = "failed" THEN @ ELSE @ \cup {id},
                !.hollow = IF outcome = "unsaved_empty" THEN @ \cup {id}
                           ELSE IF outcome = "failed" THEN @ ELSE @ \ {id}]
    /\ UNCHANGED <<buildVars, jac, rank, alloc, dst, serveVars>>

NextDownload ==
    \/ SubmitPage
    \/ HarvestPage
    \/ StopQueuing
    \/ \E id \in Listed : DrainOne(id)
    \/ DrainEnd
    \/ FinalSave
    \/ \E id \in Listed : TaskStart(id)
    \/ \E id \in Listed, outcome \in TaskOutcomes : TaskFinish(id, outcome)

SpecDownload == InitDownload /\ [][NextDownload]_vars

\* ------------------------------------------- the build, then the service
\* The service process is started once the build script has ended, on the
\* tables config.RANK_FILE and config.GRAPH_FILE then hold.
StartService ==
    /\ srv_pc = "none"
    /\ pc \in {"finished", "crashed"}
    /\ run_main' \in {"unset", "true"}
    /\ ranks_csv' = [state |-> "ok", rows |-> rank_file]
    /\ graph_csv' = [state |-> "ok", rows |-> graph_file]
    /\ srv_pc' = "boot"
    /\ UNCHANGED <<buildVars, jac, rank, alloc, dst, dl, book_ranks, book_graph, read_err, response>>

NextPipeline ==
    \/ Next
    \/ StartService
    \/ Ready

SpecPipeline == Init /\ [][NextPipeline]_vars

\* ================================================================ properties
\* pool.map of build_edges_parallel has returned its results.
Pool1Returned ==
    \/ pc \in {"returned", "centrality", "map2", "save"}
    \/ pc = "finished" /\ pool1 # <<>>
    \/ edges # <<>>

Endpoints(es) == {es[k][1] : k \in DOMAIN es} \cup {es[k][2] : k \in DOMAIN es}

\* C1: whatever the worker count and the interleaving of the row tasks, no
\* pair of positions is ever compared twice and no position with itself or
\* with an earlier one; once pool.map has returned every pair i < j has been
\* compared exactly once, and the merged edge list holds at most one edge per
\* unordered pair of books and no edge from a book to itself.
C1_PairsComparedOnce ==
    /\ \A p \in DOMAIN compared :
          /\ compared[p] <= 1
          /\ p[1] >= p[2] => compared[p] = 0
    /\ Pool1Returned =>
          /\ \A p \in DOMAIN compared : p[1] < p[2] => compared[p] = 1
          /\ \A k, l \in DOMAIN edges :
                {edges[k][1], edges[k][2]} = {edges[l][1], edges[l][2]} => k = l
          /\ \A k \in DOMAIN edges : edges[k][1] # edges[k][2]

\* C1 witness: the map over the ring of books, split in two chunks, returned edges.
C1_Witness ==
    /\ pc = "returned"
    /\ Len(pool1) >= 2
    /\ Len(book_ids) = BigBooks
    /\ edges # <<>>

\* |A \cap B| / |A \cup B| > threshold, by cross-multiplication.
SimilarityAbove(A, B) ==
    Cardinality(A \cap B) * ThresholdDen > ThresholdNum * Cardinality(A \cup B)

\* w is the fraction |A \cap B| / |A \cup B|.
IsSimilarity(w, A, B) ==
    /\ Cardinality(A \cup B) > 0
    /\ w[1] * Cardinality(A \cup B) = Cardinality(A \cap B) * w[2]

EdgeWeightInRange(w) ==
    /\ w[1] * ThresholdDen > ThresholdNum * w[2]
    /\ w[1] <= w[2]

\* C2: once pool.map has returned, the merged list holds an edge for the
\* positions i < j exactly when the Jaccard similarity of the two term sets
\* is strictly above the threshold, its weight is that similarity, and there
\* is no other edge; so every produced and every persisted weight is in
\* (threshold, 1]. The three-book example yields the single edge (1, 2, 0.5).
C2_EdgeIffAboveThreshold ==
    /\ Pool1Returned =>
          /\ \A i, j \in 1..Len(book_ids) : i < j =>
                ((\E k \in DOMAIN edges : edges[k][1] = book_ids[i] /\ edges[k][2] = book_ids[j])
                    <=> SimilarityAbove(books[book_ids[i]], books[book_ids[j]]))
          /\ \A k \in DOMAIN edges :
                \E i, j \in 1..Len(book_ids) :
                    /\ i < j
                    /\ edges[k][1] = book_ids[i]
                    /\ edges[k][2] = book_ids[j]
                    /\ IsSimilarity(edges[k][3], books[book_ids[i]], books[book_ids[j]])
                    /\ EdgeWeightInRange(edges[k][3])
          /\ books = ExampleBooks.books => edges = <<<<"1", "2", <<1, 2>>>>>>
    /\ graph_file # OldGraph =>
          \A k \in DOMAIN graph_file : EdgeWeightInRange(graph_file[k][3])

\* C2 witness: the three-book example has been run and produced its edge.
C2_Witness ==
    /\ pc = "returned"
    /\ books = ExampleBooks.books
    /\ edges = <<<<"1", "2", <<1, 2>>>>>>

AllDone(pool) == \A c \in DOMAIN pool : pool[c].status = "done"

\* C4: the parent holds a merged edge list, has returned from
\* build_edges_parallel or has written a table only when every task of the
\* similarity pool has completed, and holds the centrality records or has
\* written a table only when every task of the closeness pool has completed.
C4_PoolBarrier ==
    /\ (Pool1Returned \/ rank_file # OldRanks \/ graph_file # OldGraph) => AllDone(pool1)
    /\ (pc = "save" \/ df_ranks # <<>> \/ rank_file # OldRanks \/ graph_file # OldGraph)
          => AllDone(pool2)

\* C4 witness: the records were assembled from a closeness pool of several tasks.
C4_Witness ==
    /\ pc = "save"
    /\ Len(pool2) >= 2
    /\ Len(df_ranks) >= 2

\* C9: the records compute_centrality_parallel returns are one per book id
\* met in an accepted edge and none for another book; after the tables are
\* written, a loaded book without an edge has no row and the query-time
\* lookup gives it authority 0 and locality 0.
C9_OneRecordPerNode ==
    /\ (pc = "save" \/ df_ranks # <<>>) =>
          /\ {df_ranks[k].id : k \in DOMAIN df_ranks} = Endpoints(edges)
          /\ Len(df_ranks) = Cardinality(Endpoints(edges))
    /\ rank_file # OldRanks =>
          \A b \in Range(book_ids) : b \notin Endpoints(edges) =>
             /\ \A k \in DOMAIN rank_file : rank_file[k].id # b
             /\ RanksToDict(rank_file).ok
             /\ GetStats(RanksToDict(rank_file).dict, ParseId(b)) =
                   [pagerank |-> 0, closeness |-> <<0, 1>>]

\* C9 witness: tables written for a corpus in which some book has no edge.
C9_Witness ==
    /\ pc = "finished"
    /\ rank_file # OldRanks
    /\ Len(rank_file) >= 2
    /\ \E b \in Range(book_ids) : b \notin Endpoints(edges)

\* C3: for the sets A and B handed to compute_jaccard, the similarity of a
\* non-empty A with itself is 1, the similarity of two empty sets is 0, and
\* the similarity of A and B is that of B and A.
C3_JaccardLaws ==
    jac.called =>
        /\ jac.a # {} => jac.aa = <<1, 1>>
        /\ jac.a = {} => jac.aa = <<0, 1>>
        /\ jac.ab = jac.ba

\* C3 witness: two different overlapping non-empty sets have been compared.
C3_Witness ==
    /\ jac.called
    /\ jac.a # jac.b
    /\ jac.a \cap jac.b # {}
    /\ jac.a \ jac.b # {}
    /\ jac.ab = <<1, 3>>

\* The authority the snapshot holds for an id, 0 when it holds none.
AuthorityOf(ranks, id) ==
    IF \E p \in ranks : p[1] = id THEN (CHOOSE p \in ranks : p[1] = id)[2].pagerank ELSE 0

\* The largest relevance of the batch, 1 when it is 0 or the batch is empty.
BatchMax(hits) ==
    LET S == {hits[k].score : k \in DOMAIN hits} \ {0}
    IN  IF S = {} THEN 1 ELSE CHOOSE m \in S : \A x \in S : x <= m

\* score (ten-thousandths) is num / den rounded to the nearest ten-thousandth.
IsRounded(score, num, den) ==
    /\ 2 * (score * den - num) <= den
    /\ 2 * (num - score * den) <= den

ExampleHits ==
    <<[gutenberg_id |-> 1, score |-> 10], [gutenberg_id |-> 2, score |-> 5],
      [gutenberg_id |-> 3, score |-> 0]>>

\* C5: every returned hit carries the score
\* round(0.7 * relevance / max_relevance + 0.3 * 50 * authority, 4) of the
\* input hit it stands for; the example batch gets 1.0, 0.5 and 0 in the
\* order 1, 2, 3.
C5_FusionFormula ==
    rank.called =>
        /\ rank.ok
        /\ \A k \in DOMAIN rank.results :
              LET r == rank.results[k]
                  hit == rank.hits[r.pos]
                  m == BatchMax(rank.hits)
              IN  IsRounded(r.score,
                            7000 * hit.score + 15 * AuthorityOf(rank.ranks, hit.gutenberg_id) * m,
                            m)
        /\ (rank.hits = ExampleHits /\ rank.ranks = ExampleRanks) =>
              /\ [k \in DOMAIN rank.results |-> rank.results[k].id] = <<1, 2, 3>>
              /\ [k \in DOMAIN rank.results |-> rank.results[k].score] = <<10000, 5000, 0>>

\* C5 witness: the example batch has been ranked against the example authorities.
C5_Witness ==
    /\ rank.called
    /\ rank.hits = ExampleHits
    /\ rank.ranks = ExampleRanks
    /\ Len(rank.results) = 3

\* C6: the result is a permutation of the input hits, ordered by score
\* largest first, hits of equal score in their input order.
C6_StablePermutation ==
    rank.called =>
        /\ Len(rank.results) = Len(rank.hits)
        /\ {rank.results[k].pos : k \in DOMAIN rank.results} = DOMAIN rank.hits
        /\ \A k \in DOMAIN rank.results :
              rank.results[k].id = rank.hits[rank.results[k].pos].gutenberg_id
        /\ \A k, l \in DOMAIN rank.results : k < l =>
              /\ rank.results[k].score >= rank.results[l].score
              /\ rank.results[k].score = rank.results[l].score =>
                    rank.results[k].pos < rank.results[l].pos

\* C6 witness: a batch was reordered and two hits of equal score were kept in
\* input order.
C6_Witness ==
    /\ rank.called
    /\ Len(rank.results) = 3
    /\ rank.results[1].pos = 2
    /\ rank.results[2].score = rank.results[3].score
    /\ rank.results[2].id # rank.results[3].id

\* C7: a batch whose largest relevance is 0 is ranked without error, every
\* hit scoring 0.3 * 50 * its authority; an empty batch gives an empty result
\* without error.
C7_ZeroMaxRelevance ==
    rank.called =>
        /\ (\A k \in DOMAIN rank.hits : rank.hits[k].score = 0) =>
              /\ rank.ok
              /\ Len(rank.results) = Len(rank.hits)
              /\ \A k \in DOMAIN rank.results :
                    rank.results[k].score = 15 * AuthorityOf(rank.ranks, rank.results[k].id)
        /\ rank.hits = <<>> => rank.ok /\ rank.results = <<>>

\* C7 witness: a batch of relevance 0 throughout was ranked by authority.
C7_Witness ==
    /\ rank.called
    /\ Len(rank.hits) = 3
    /\ \A k \in DOMAIN rank.hits : rank.hits[k].score = 0
    /\ rank.results[1].score > rank.results[3].score

\* C8: a hit whose id the snapshot does not hold is returned, with authority
\* 0 and the score 0.7 * relevance / max_relevance (to four decimals), and
\* the call does not fail.
C8_MissingAuthority ==
    rank.called =>
        /\ rank.ok
        /\ \A k \in DOMAIN rank.hits :
              (\A p \in rank.ranks : p[1] # rank.hits[k].gutenberg_id) =>
                 \E l \in DOMAIN rank.results :
                    /\ rank.results[l].pos = k
                    /\ rank.results[l].pagerank = 0
                    /\ IsRounded(rank.results[l].score, 7000 * rank.hits[k].score,
                                 BatchMax(rank.hits))

\* C8 witness: a hit absent from the snapshot was ranked among hits present in it.
C8_Witness ==
    /\ rank.called
    /\ rank.ranks = {<<1, Stats(200)>>}
    /\ \E k \in DOMAIN rank.results :
          /\ rank.results[k].id = 2
          /\ rank.results[k].score = 5833
    /\ \E k \in DOMAIN rank.results : rank.results[k].id = 1

\* C10: once the service has started with both tables present, the ranks map
\* and the adjacency map hold the tables' contents, whatever the environment
\* the process was started in.
C10_LoadedAtStart ==
    (srv_pc = "serving" /\ ranks_csv.state = "ok" /\ graph_csv.state = "ok") =>
        /\ book_ranks = RanksToDict(ranks_csv.rows).dict
        /\ book_graph = Adjacency(graph_csv.rows)

\* The ids of the listed book files that can be opened, read and decoded.
ReadableIds(dir) ==
    {StripTxt(dir[k].name) : k \in {k \in DOMAIN dir : EndsWithTxt(dir[k].name) /\ dir[k].kind = "text"}}

\* C11: whatever files of the books directory cannot be opened, read or
\* decoded, load_books ends without aborting the run, the term-set mapping
\* holds exactly the other books, and no edge or record names a skipped book.
C11_UnreadableSkipped ==
    (entry = "main" /\ config_api = "flat" /\ pc # "start") =>
        /\ error # "UnicodeDecodeError"
        /\ DOMAIN books = ReadableIds(listing)
        /\ Endpoints(edges) \subseteq ReadableIds(listing)
        /\ {df_ranks[k].id : k \in DOMAIN df_ranks} \subseteq ReadableIds(listing)

\* C12: once a task of either pool has raised, the run goes no further than
\* the failure of that step, and both tables on disk stay what they were
\* before the run.
C12_WorkerFailureWritesNothing ==
    (\/ \E c \in DOMAIN pool1 : pool1[c].status = "failed"
     \/ \E c \in DOMAIN pool2 : pool2[c].status = "failed") =>
        /\ pc \in {"map1", "map2", "crashed"}
        /\ pc = "crashed" => error = "WorkerError"
        /\ rank_file = OldRanks
        /\ graph_file = OldGraph

\* C12 witness: the run has ended on a failure inside the closeness pool,
\* another task of that pool having completed.
C12_Witness ==
    /\ pc = "crashed"
    /\ error = "WorkerError"
    /\ \E c \in DOMAIN pool2 : pool2[c].status = "failed"
    /\ \E c \in DOMAIN pool2 : pool2[c].status = "done"
    /\ rank_file = OldRanks

\* C13: a run of the script that ends with no book loaded or with no edge
\* has not computed centrality and has written neither table.
C13_NothingToPersist ==
    (entry = "main" /\ pc = "finished" /\ (book_ids = <<>> \/ edges = <<>>)) =>
        /\ nodes_list = <<>>
        /\ pool2 = <<>>
        /\ df_ranks = <<>>
        /\ rank_file = OldRanks
        /\ graph_file = OldGraph

\* C13 witness: books were loaded and compared, no pair was similar enough,
\* and the run has ended.
C13_Witness ==
    /\ entry = "main"
    /\ pc = "finished"
    /\ Len(book_ids) >= 2
    /\ pool1 # <<>>
    /\ \A c \in DOMAIN pool1 : pool1[c].status = "done"
    /\ edges = <<>>
    /\ graph_file = OldGraph

\* save_data has written the records of this run and the service has loaded
\* the ranks table.
RanksWrittenAndLoaded ==
    /\ pc = "finished"
    /\ df_ranks # <<>>
    /\ rank_file = df_ranks
    /\ srv_pc = "serving"
    /\ run_main = "true"

\* The ids of the loaded map are those of the written records and each id is
\* mapped to the authority and locality of its record, to the digits the
\* reader keeps.
SameRecords ==
    /\ {p[1] : p \in book_ranks} = {ParseId(df_ranks[k].id) : k \in DOMAIN df_ranks}
    /\ \A k \in DOMAIN df_ranks :
          GetStats(book_ranks, ParseId(df_ranks[k].id)) =
             [pagerank |-> df_ranks[k].pagerank, closeness |-> df_ranks[k].closeness]

C15_RanksSortedAndComplete ==
    /\ [](pc = "finished" /\ df_ranks # <<>> =>
             \A k \in 1..(Len(rank_file) - 1) :
                 rank_file[k].pagerank >= rank_file[k + 1].pagerank)
    /\ [][pc = "save" /\ pc' = "finished" =>
             /\ Len(rank_file') = Len(df_ranks)
             /\ Range(rank_file') = Range(df_ranks)]_vars

\* C15 witness: a table of three rows or more was written in an order other
\* than that of the records given, its first authority above its last.
C15_Witness ==
    /\ pc = "finished"
    /\ Len(rank_file) >= 3
    /\ rank_file = df_ranks
    /\ rank_file[1].pagerank > rank_file[Len(rank_file)].pagerank
    /\ rank_file[1].id # nodes_list[1]

\* C16: a suggestion request for a book the adjacency snapshot does not hold,
\* or holds with no neighbour, is answered with an empty result and the index
\* is not queried; any other request queries the index for the ids of the
\* book's adjacency list only and is answered with at most 10 of them.
C16_SuggestionsFromAdjacency ==
    response.kind = "suggest" =>
        LET neighbor_ids == Get(book_graph, response.arg, <<>>)
        IN  /\ neighbor_ids = <<>> => response.queried = {} /\ response.results = {}
            /\ neighbor_ids # <<>> => response.queried = Range(neighbor_ids)
            /\ response.results \subseteq response.queried
            /\ Cardinality(response.results) <= 10
            /\ response.status = 200

\* C16 witness: the hub book has more than 10 neighbours, all indexed, and 10
\* of them were suggested.
C16_Witness ==
    /\ response.kind = "suggest"
    /\ Cardinality(response.queried) > 10
    /\ Cardinality(response.results) = 10

\* C17: no request handled by the service changes the ranks map or the
\* adjacency map.
C17_SnapshotReadOnly ==
    [][srv_pc = "serving" => book_ranks' = book_ranks /\ book_graph' = book_graph]_vars

\* C17 witness: a search was answered with a hit the loaded ranks map does
\* not hold, and a suggestion request was made for a book the adjacency map
\* does not hold either.
C17_Witness ==
    /\ srv_pc = "serving"
    /\ book_ranks # {}
    /\ book_graph # {}
    /\ response.kind = "simple"
    /\ response.status = 200
    /\ \E k \in DOMAIN response.results :
          \A p \in book_ranks : p[1] # response.results[k].id

\* C18: every read of a profile returns the documented count of its context:
\* in the container 10, 20 and 8 for ram_intensive, cpu_intensive and
\* io_intensive; locally the core count capped at 6, the core count, and 4;
\* 13 for download in both; so repeated reads agree.
C18_AllocatorTable ==
    \A k \in DOMAIN alloc.reads :
        alloc.reads[k] =
            CASE alloc.profile = "ram_intensive" ->
                    IF alloc.docker THEN 10 ELSE IF alloc.cores > 6 THEN 6 ELSE alloc.cores
              [] alloc.profile = "cpu_intensive" -> IF alloc.docker THEN 20 ELSE alloc.cores
              [] alloc.profile = "io_intensive" -> IF alloc.docker THEN 8 ELSE 4
              [] alloc.profile = "download" -> 13

\* C18 witness: on a local machine of more than 6 cores ram_intensive was
\* read twice and was 6 both times.
C18_Witness ==
    /\ ~alloc.docker
    /\ alloc.cores > 6
    /\ alloc.profile = "ram_intensive"
    /\ Len(alloc.reads) >= 2
    /\ alloc.reads[1] = 6
    /\ alloc.reads[2] = 6

\* C19: in the container as on a local machine, whatever the core count, a
\* read of ram_intensive is at most the core count.
C19_RamWithinCores ==
    \A k \in DOMAIN alloc.reads :
        alloc.profile = "ram_intensive" => alloc.reads[k] <= alloc.cores

\* The node ids of the result a task of the closeness pool has returned.
ResultKeys(c) == {p[1] : p \in pool2[c].out[1]}

\* C20: the chunks handed to the closeness pool are at most `cores`, none is
\* empty, and joined in order they are the node list, so they are contiguous,
\* disjoint and cover every node; each worker returns values for the nodes of
\* its chunk only, and after the merge every node has one record whose
\* locality is the value the one worker holding the node computed.
C20_ClosenessPartition ==
    (pool2 # <<>>) =>
        /\ Len(pool2) <= WORKERS_CLOSENESS
        /\ \A c \in DOMAIN pool2 : pool2[c].items # <<>>
        /\ Concat([c \in DOMAIN pool2 |-> pool2[c].items]) = nodes_list
        /\ \A c, d \in DOMAIN pool2 :
              c # d => Range(pool2[c].items) \cap Range(pool2[d].items) = {}
        /\ \A c \in DOMAIN pool2 :
              pool2[c].status = "done" => ResultKeys(c) = Range(pool2[c].items)
        /\ pc \in {"save", "finished"} =>
              /\ Len(df_ranks) = Len(nodes_list)
              /\ {df_ranks[k].id : k \in DOMAIN df_ranks} = Range(nodes_list)
              /\ \A k \in DOMAIN df_ranks :
                    /\ Cardinality({c \in DOMAIN pool2 : df_ranks[k].id \in ResultKeys(c)}) = 1
                    /\ \A c \in DOMAIN pool2 :
                          df_ranks[k].id \in ResultKeys(c) =>
                             df_ranks[k].closeness = Get(pool2[c].out[1], df_ranks[k].id, <<0, 1>>)

\* C20 witness: three nodes were split into a chunk of two and a chunk of
\* one for two workers, and the merged records were written.
C20_Witness ==
    /\ pc = "finished"
    /\ Len(pool2) = 2
    /\ Len(pool2[1].items) = 2
    /\ Len(pool2[2].items) = 1
    /\ Len(df_ranks) = 3
    /\ rank_file = df_ranks

\* C21: every edge of the distance graph has a weight above 0; so has the
\* distance of every accepted similarity, a similarity of 1 included.
C21_DistancePositive ==
    /\ \A e \in graph : e[3][1] > 0 /\ e[3][2] > 0
    /\ \A k \in DOMAIN edges :
          pc \in {"map2", "save", "finished"} =>
             \E e \in graph : {e[1], e[2]} = {edges[k][1], edges[k][2]}

\* C21 witness: the distance graph holds an edge built from a similarity of 1
\* and an edge built from a lower similarity.
C21_Witness ==
    /\ \E k \in DOMAIN edges : edges[k][3] = <<1, 1>>
    /\ \E e \in graph : e[3] = <<1, 1000>>
    /\ \E e \in graph : e[3] = <<1, 2>>

\* C25: of two accepted similarities, the strictly lower one is given the
\* strictly larger distance.
C25_OrderReversing ==
    (dst.called /\ RatLess(dst.w1, dst.w2)) => RatLess(dst.d2, dst.d1)

\* C22: once load_books has returned, the mapping handed to the similarity
\* builder holds no book whose cleaned term set is empty, and no edge names
\* such a book.
C22_EmptyBooksDropped ==
    (entry = "main" /\ config_api = "flat" /\ pc \notin {"start", "crashed"}) =>
        /\ \A id \in DOMAIN books : books[id] # {}
        /\ \A k \in DOMAIN book_ids : books[book_ids[k]] # {}
        /\ \A id \in Endpoints(edges) : books[id] # {}

\* C23: once the snapshot is loaded from an edges table, each row's target is
\* in the adjacency list of its source and its source is in the adjacency
\* list of its target.
C23_UndirectedAdjacency ==
    (srv_pc = "serving" /\ run_main = "true" /\ graph_csv.state = "ok") =>
        \A k \in DOMAIN graph_csv.rows :
            LET a == ParseId(graph_csv.rows[k][1])
                b == ParseId(graph_csv.rows[k][2])
            IN  /\ b \in Range(Get(book_graph, a, <<>>))
                /\ a \in Range(Get(book_graph, b, <<>>))

\* The attributes of config that build_graphs.py reads.
BuildReads ==
    {"BOOKS_DIR", "JACCARD_THRESHOLD", "WORKERS_JACCARD", "WORKERS_CLOSENESS", "RANK_FILE",
     "GRAPH_FILE", "DATA_DIR"}

\* C24: the configuration module of the repository defines every attribute
\* the build stage reads, and a run of the stage with it does not end on a
\* missing attribute.
C24_ConfigComplete ==
    (entry = "main" /\ config_api = "dict" /\ pc # "start") =>
        /\ BuildReads \subseteq ConfigNames(config_api)
        /\ error # "AttributeError"

\* The edges as unordered pairs with their weights.
UnorderedEdges(es) == {<<{es[k][1], es[k][2]}, es[k][3]>> : k \in DOMAIN es}

\* The pairs of books of a mapping whose similarity, taken in either order,
\* is above the threshold, with that similarity: no enumeration order enters.
EdgeSetOf(bks) ==
    {<<{p[1], p[2]}, compute_jaccard(bks[p[1]], bks[p[2]])>> :
        p \in {p \in (DOMAIN bks) \X (DOMAIN bks) :
                  /\ p[1] # p[2]
                  /\ AboveThreshold(compute_jaccard(bks[p[1]], bks[p[2]]))}}

\* C26: whatever the order in which the ids are enumerated, the edges
\* build_edges_parallel returns are, as unordered pairs with their weights,
\* the set fixed by the id-to-term-set mapping alone, one edge per pair.
C26_OrderIndependentEdges ==
    Pool1Returned =>
        /\ UnorderedEdges(edges) = EdgeSetOf(books)
        /\ Len(edges) = Cardinality(EdgeSetOf(books))

\* C26 witness: the three similar books were enumerated last file first and
\* their three edges were returned, the first with book 4 as its source.
C26_Witness ==
    /\ entry = "main"
    /\ book_ids = <<"4", "2", "1">>
    /\ Pool1Returned
    /\ Len(edges) = 3
    /\ edges[1][1] = "4"

\* C27: the startup never fails; a ranks table that is missing or cannot be
\* parsed leaves the ranks map empty and the adjacency map is loaded all the
\* same, a missing or unparsable edges table leaves the adjacency map empty
\* and the ranks map is loaded all the same (RUN_MAIN being 'true', so that
\* the tables are read), and the answers then carry authority 0 or no
\* neighbours.
C27_LoadFailureIsolated ==
    /\ srv_pc # "failed"
    /\ srv_pc = "serving" =>
          /\ ranks_csv.state # "ok" => book_ranks = {}
          /\ graph_csv.state # "ok" => book_graph = {}
          /\ (run_main = "true" /\ graph_csv.state = "ok") =>
                book_graph = Adjacency(graph_csv.rows)
          /\ (run_main = "true" /\ ranks_csv.state = "ok") =>
                book_ranks = RanksToDict(ranks_csv.rows).dict
          /\ (ranks_csv.state # "ok" /\ response.kind \in {"simple", "advanced"}
                                     /\ response.status = 200) =>
                \A k \in DOMAIN response.results : response.results[k].pagerank = 0
          /\ (graph_csv.state # "ok" /\ response.kind = "suggest") =>
                /\ response.status = 200
                /\ response.results = {}
                /\ response.queried = {}

\* C27 witness: the ranks table could not be parsed, the adjacency map was
\* loaded from the edges table, and a search answered its hits.
C27_Witness ==
    /\ srv_pc = "serving"
    /\ run_main = "true"
    /\ ranks_csv.state = "corrupt"
    /\ graph_csv.state = "ok"
    /\ book_ranks = {}
    /\ book_graph = Adjacency(graph_csv.rows)
    /\ book_graph # {}
    /\ response.kind = "simple"
    /\ response.status = 200
    /\ response.results # <<>>

====
